---- MODULE Spec2Model ----
(***************************************************************************)
(* serfig: layered configuration built upon serde.                         *)
(*                                                                         *)
(* Three specifications are developed here.                                *)
(*   SpecMerge  the merge engine of src/value.rs (merge, merge_defaultable,*)
(*              is_default) applied to bounded families of Values.         *)
(*   Spec       Builder::build_with of src/builder.rs, one loop iteration  *)
(*              per step, over bounded lists of collectors.                *)
(*   SpecCollect  the source adapters of src/collectors (environment,      *)
(*              string, reader, file, from_self), collect() called up to   *)
(*              MaxCollects times on one adapter.                          *)
(***************************************************************************)
EXTENDS Integers, Sequences, FiniteSets, TLC

VARIABLES
    \* ---- merge engine (SpecMerge) ----
    m_op,       \* which function has been applied: "input" before any
    m_d,        \* the default operand
    m_l,        \* the left / accumulated operand
    m_r,        \* the right / candidate operand
    m_out,      \* the function's return value
    \* ---- Builder::build_with (Spec) ----
    pc,             \* position in build_with: "start", "loop", "done"
    collectors,     \* self.collectors: what each collector's collect() returns
    has_handler,    \* self.unknown_field_handler.is_some()
    default_in,     \* the `default: V` argument, as the Value into_value gives
    idx,            \* number of collectors the for loop has consumed
    default,        \* let default = into_value(default)?
    value,          \* let mut value
    result,         \* let mut result: Option<V>
    ret,            \* what build_with returned: <<>> until it returns
    handled,        \* paths the unknown-field handler has been called with
    warned,         \* number of warn!("deserialize value ...") lines logged
    \* ---- one source adapter (SpecCollect) ----
    c_kind,     \* "env", "str", "reader", "file" or "self"
    c_src,      \* what the adapter reads: environment, bytes, file, or the V
    c_pos,      \* lines of the input the reader has consumed
    c_open,     \* LazyFileReader.r.is_some()
    c_some,     \* FromSelf.0.is_some()
    c_calls     \* what each collect() so far returned

mvars == <<m_op, m_d, m_l, m_r, m_out>>
bvars == <<pc, collectors, has_handler, default_in, idx, default, value, result, ret, handled, warned>>
cvars == <<c_kind, c_src, c_pos, c_open, c_some, c_calls>>
vars == <<m_op, m_d, m_l, m_r, m_out,
          pc, collectors, has_handler, default_in, idx, default, value, result, ret, handled, warned,
          c_kind, c_src, c_pos, c_open, c_some, c_calls>>

(***************************************************************************)
(* serde_bridge::Value.  Every Value is a record of the same seven fields  *)
(* so that any two Values can be compared with =:                          *)
(*   kind     the enum variant ("Bool", "I64", "Str", "Map", "Struct", ...)*)
(*   name     the struct / enum name (&'static str), "" when there is none *)
(*   vi       variant_index, 0 when there is none                          *)
(*   variant  the variant name, "" when there is none                      *)
(*   s        the scalar payload written as text ("true", "0", "X")        *)
(*   items    the ordered elements of Some / Newtype* / Seq / Tuple*       *)
(*   fields   the IndexMap of Map / Struct / StructVariant, as a function  *)
(*            from keys to Values.  IndexMap's PartialEq ignores order, so *)
(*            equality of functions is equality of the maps.               *)
(***************************************************************************)
Mk(kind, name, vi, variant, s, items, fields) ==
    [kind |-> kind, name |-> name, vi |-> vi, variant |-> variant,
     s |-> s, items |-> items, fields |-> fields]

NoItems == <<>>
NoFields == <<>>

Unit == Mk("Unit", "", 0, "", "", NoItems, NoFields)
None == Mk("None", "", 0, "", "", NoItems, NoFields)
Bool(b) == Mk("Bool", "", 0, "", IF b THEN "true" ELSE "false", NoItems, NoFields)
I64(s) == Mk("I64", "", 0, "", s, NoItems, NoFields)
U64(s) == Mk("U64", "", 0, "", s, NoItems, NoFields)
F64(s) == Mk("F64", "", 0, "", s, NoItems, NoFields)
Char(s) == Mk("Char", "", 0, "", s, NoItems, NoFields)
Str(s) == Mk("Str", "", 0, "", s, NoItems, NoFields)
Bytes(s) == Mk("Bytes", "", 0, "", s, NoItems, NoFields)
Some(v) == Mk("Some", "", 0, "", "", <<v>>, NoFields)
UnitStruct(n) == Mk("UnitStruct", n, 0, "", "", NoItems, NoFields)
UnitVariant(n, vi, v) == Mk("UnitVariant", n, vi, v, "", NoItems, NoFields)
NewtypeStruct(n, v) == Mk("NewtypeStruct", n, 0, "", "", <<v>>, NoFields)
NewtypeVariant(n, vi, v, x) == Mk("NewtypeVariant", n, vi, v, "", <<x>>, NoFields)
Seq_(xs) == Mk("Seq", "", 0, "", "", xs, NoFields)
Tuple(xs) == Mk("Tuple", "", 0, "", "", xs, NoFields)
TupleStruct(n, xs) == Mk("TupleStruct", n, 0, "", "", xs, NoFields)
TupleVariant(n, vi, v, xs) == Mk("TupleVariant", n, vi, v, "", xs, NoFields)
Map(f) == Mk("Map", "", 0, "", "", NoItems, f)
Struct(n, f) == Mk("Struct", n, 0, "", "", NoItems, f)
StructVariant(n, vi, v, f) == Mk("StructVariant", n, vi, v, "", NoItems, f)

\* IndexMap::remove, IndexMap::insert, IndexMap::get on the function model.
Remove(m, k) == [x \in (DOMAIN m) \ {k} |-> m[x]]
Insert(m, k, v) == [x \in (DOMAIN m) \cup {k} |-> IF x = k THEN v ELSE m[x]]
HasKey(m, k) == k \in DOMAIN m

(***************************************************************************)
(* src/value.rs                                                            *)
(***************************************************************************)
IntegerKinds == {"I8", "I16", "I32", "I64", "I128", "U8", "U16", "U32", "U64", "U128"}
FloatKinds == {"F32", "F64"}

RECURSIVE is_default(_)
\* Mutant of is_default: a unit-variant counts as default.
is_default_unit_variant(v) ==
    CASE v.kind = "UnitVariant" -> TRUE
      [] v.kind \in {"Some", "NewtypeStruct", "NewtypeVariant"} -> is_default(v.items[1])
      [] v.kind \in {"Bool"} -> v.s = "false"
      [] v.kind \in IntegerKinds \cup FloatKinds -> v.s = "0"
      [] v.kind = "Char" -> v.s = "NUL"
      [] v.kind \in {"Str", "Bytes"} -> v.s = ""
      [] v.kind \in {"None", "Unit", "UnitStruct"} -> TRUE
      [] v.kind \in {"Seq", "Tuple", "TupleStruct", "TupleVariant"} -> v.items = <<>>
      [] v.kind \in {"Map", "Struct", "StructVariant"} -> DOMAIN v.fields = {}

is_default(v) ==
    CASE v.kind = "Bool" -> v.s = "false"
      [] v.kind \in IntegerKinds -> v.s = "0"
      [] v.kind \in FloatKinds -> v.s = "0"
      [] v.kind = "Char" -> v.s = "NUL"
      [] v.kind = "Str" -> v.s = ""
      [] v.kind = "Bytes" -> v.s = ""
      [] v.kind = "None" -> TRUE
      [] v.kind = "Some" -> is_default(v.items[1])
      [] v.kind = "Unit" -> TRUE
      [] v.kind = "UnitStruct" -> TRUE
      [] v.kind = "UnitVariant" -> FALSE
      [] v.kind = "NewtypeStruct" -> is_default(v.items[1])
      [] v.kind = "NewtypeVariant" -> is_default(v.items[1])
      [] v.kind = "Seq" -> v.items = <<>>
      [] v.kind = "Tuple" -> v.items = <<>>
      [] v.kind = "TupleStruct" -> v.items = <<>>
      [] v.kind = "TupleVariant" -> v.items = <<>>
      [] v.kind = "Map" -> DOMAIN v.fields = {}
      [] v.kind = "Struct" -> DOMAIN v.fields = {}
      [] v.kind = "StructVariant" -> DOMAIN v.fields = {}

\* Value's derived PartialEq: structural equality, in which a NaN float is
\* unequal to itself, and so is every Value that holds one.
RECURSIVE HasNaN(_)
HasNaN(v) ==
    \/ v.kind \in FloatKinds /\ v.s = "NaN"
    \/ \E i \in DOMAIN v.items : HasNaN(v.items[i])
    \/ \E k \in DOMAIN v.fields : HasNaN(v.fields[k])
ValueEq(a, b) == a = b /\ ~HasNaN(a)

RECURSIVE merge(_, _)
RECURSIVE merge_map_loop(_, _, _)

\* Mutants of merge_map_entry.
\* (1) a key of both sides is always merged, whatever is_default says.
merge_map_entry_always_merge(l, k, rv) ==
    IF HasKey(l, k)
    THEN Insert(Remove(l, k), k, merge(l[k], rv))
    ELSE Insert(l, k, rv)
\* (2) a key that only r holds is not inserted.
merge_map_entry_drops_new(l, k, rv) ==
    IF HasKey(l, k)
    THEN LET lv == l[k]
             v == CASE ~is_default(lv) /\ ~is_default(rv) -> merge(lv, rv)
                    [] ~is_default(lv) /\ is_default(rv) -> lv
                    [] is_default(lv) -> rv
         IN Insert(Remove(l, k), k, v)
    ELSE l

\* The body of `for (k, rv) in r` of merge_map for one entry of r.
merge_map_entry(l, k, rv) ==
    IF HasKey(l, k)
    THEN LET lv == l[k]
             v == CASE ~is_default(lv) /\ ~is_default(rv) -> merge(lv, rv)
                    [] ~is_default(lv) /\ is_default(rv) -> lv
                    [] is_default(lv) -> rv
         IN Insert(Remove(l, k), k, v)
    ELSE Insert(l, k, rv)

\* The for loop of merge_map over the entries of r not yet visited (ks).
merge_map_loop(l, r, ks) ==
    IF ks = {} THEN l
    ELSE LET k == CHOOSE x \in ks : TRUE
         IN merge_map_loop(merge_map_entry(l, k, r[k]), r, ks \ {k})

merge_map(l, r) == merge_map_loop(l, r, DOMAIN r)

\* Mutant of merge: structs are merged whatever their names.
merge_any_struct(l, r) ==
    CASE l.kind = "Map" /\ r.kind = "Map" -> Map(merge_map(l.fields, r.fields))
      [] l.kind = "Struct" /\ r.kind = "Struct" ->
            Struct(l.name, merge_map(l.fields, r.fields))
      [] l.kind = "StructVariant" /\ r.kind = "StructVariant" ->
            StructVariant(l.name, l.vi, l.variant, merge_map(l.fields, r.fields))
      [] OTHER -> r

merge(l, r) ==
    CASE l.kind = "Map" /\ r.kind = "Map" -> Map(merge_map(l.fields, r.fields))
      [] l.kind = "Struct" /\ r.kind = "Struct" /\ l.name = r.name ->
            Struct(l.name, merge_map(l.fields, r.fields))
      [] l.kind = "StructVariant" /\ r.kind = "StructVariant"
         /\ l.name = r.name /\ l.vi = r.vi /\ l.variant = r.variant ->
            StructVariant(l.name, l.vi, l.variant, merge_map(l.fields, r.fields))
      [] OTHER -> r

RECURSIVE merge_map_defaultable_loop(_, _, _, _)

\* Mutants of merge_map_defaultable_entry.
\* (1) the decision taken on is_default, as merge_map takes it, not on equality with the default.
merge_map_defaultable_entry_by_zero(d, l, k, rv) ==
    IF HasKey(l, k)
    THEN LET lv == l[k]
             v == CASE ~is_default(lv) /\ ~is_default(rv) -> merge(lv, rv)
                    [] ~is_default(lv) /\ is_default(rv) -> lv
                    [] is_default(lv) -> rv
         IN Insert(Remove(l, k), k, v)
    ELSE Insert(l, k, rv)
\* (2) an entry whose key the default lacks is skipped.
merge_map_defaultable_entry_skip_unknown(d, l, k, rv) ==
    IF ~HasKey(d, k) THEN l
    ELSE IF HasKey(l, k)
         THEN LET lv == l[k]
                  dv == d[k]
                  v == CASE ~ValueEq(lv, dv) /\ ~ValueEq(rv, dv) -> merge(lv, rv)
                         [] ~ValueEq(lv, dv) /\ ValueEq(rv, dv) -> lv
                         [] ValueEq(lv, dv) -> rv
              IN Insert(Remove(l, k), k, v)
         ELSE Insert(l, k, rv)
\* (3) the candidate always wins.
merge_map_defaultable_entry_right_wins(d, l, k, rv) == Insert(Remove(l, k), k, rv)

\* (4) the default's entry is unwrapped: a key the default lacks panics, and
\* the panic is what the merge gives for that key.
merge_map_defaultable_entry_unwrap(d, l, k, rv) ==
    IF ~HasKey(d, k) THEN Insert(Remove(l, k), k, Mk("Panic", "", 0, "", "", NoItems, NoFields))
    ELSE IF HasKey(l, k)
         THEN LET lv == l[k]
                  dv == d[k]
                  v == CASE ~ValueEq(lv, dv) /\ ~ValueEq(rv, dv) -> merge(lv, rv)
                         [] ~ValueEq(lv, dv) /\ ValueEq(rv, dv) -> lv
                         [] ValueEq(lv, dv) -> rv
              IN Insert(Remove(l, k), k, v)
         ELSE Insert(l, k, rv)

\* The body of `for (k, rv) in r` of merge_map_defaultable for one entry.
merge_map_defaultable_entry(d, l, k, rv) ==
    LET dv == IF HasKey(d, k) THEN d[k] ELSE Unit
    IN IF HasKey(l, k)
       THEN LET lv == l[k]
                v == CASE ~ValueEq(lv, dv) /\ ~ValueEq(rv, dv) -> merge(lv, rv)
                       [] ~ValueEq(lv, dv) /\ ValueEq(rv, dv) -> lv
                       [] ValueEq(lv, dv) -> rv
            IN Insert(Remove(l, k), k, v)
       ELSE Insert(l, k, rv)

merge_map_defaultable_loop(d, l, r, ks) ==
    IF ks = {} THEN l
    ELSE LET k == CHOOSE x \in ks : TRUE
         IN merge_map_defaultable_loop(d, merge_map_defaultable_entry(d, l, k, r[k]), r, ks \ {k})

merge_map_defaultable(d, l, r) == merge_map_defaultable_loop(d, l, r, DOMAIN r)

\* Mutant of merge_defaultable: structs and struct-variants are merged
\* whatever their names.
merge_defaultable_any_struct(d, l, r) ==
    CASE d.kind = "Map" /\ l.kind = "Map" /\ r.kind = "Map" ->
            Map(merge_map_defaultable(d.fields, l.fields, r.fields))
      [] d.kind = "Struct" /\ l.kind = "Struct" /\ r.kind = "Struct" ->
            Struct(l.name, merge_map_defaultable(d.fields, l.fields, r.fields))
      [] d.kind = "StructVariant" /\ l.kind = "StructVariant" /\ r.kind = "StructVariant" ->
            StructVariant(l.name, l.vi, l.variant,
                          merge_map_defaultable(d.fields, l.fields, r.fields))
      [] OTHER -> r

\* Mutant of merge_defaultable: operands that the three-way arms do not
\* take are merged two-way.
merge_defaultable_falls_to_merge(d, l, r) ==
    CASE d.kind = "Map" /\ l.kind = "Map" /\ r.kind = "Map" ->
            Map(merge_map_defaultable(d.fields, l.fields, r.fields))
      [] d.kind = "Struct" /\ l.kind = "Struct" /\ r.kind = "Struct"
         /\ l.name = r.name /\ l.name = d.name ->
            Struct(l.name, merge_map_defaultable(d.fields, l.fields, r.fields))
      [] d.kind = "StructVariant" /\ l.kind = "StructVariant" /\ r.kind = "StructVariant"
         /\ l.name = r.name /\ l.vi = r.vi /\ l.variant = r.variant
         /\ l.name = d.name /\ l.vi = d.vi /\ l.variant = d.variant ->
            StructVariant(l.name, l.vi, l.variant,
                          merge_map_defaultable(d.fields, l.fields, r.fields))
      [] OTHER -> merge(l, r)

merge_defaultable(d, l, r) ==
    CASE d.kind = "Map" /\ l.kind = "Map" /\ r.kind = "Map" ->
            Map(merge_map_defaultable(d.fields, l.fields, r.fields))
      [] d.kind = "Struct" /\ l.kind = "Struct" /\ r.kind = "Struct"
         /\ l.name = r.name /\ l.name = d.name ->
            Struct(l.name, merge_map_defaultable(d.fields, l.fields, r.fields))
      [] d.kind = "StructVariant" /\ l.kind = "StructVariant" /\ r.kind = "StructVariant"
         /\ l.name = r.name /\ l.vi = r.vi /\ l.variant = r.variant
         /\ l.name = d.name /\ l.vi = d.vi /\ l.variant = d.variant ->
            StructVariant(l.name, l.vi, l.variant,
                          merge_map_defaultable(d.fields, l.fields, r.fields))
      [] OTHER -> r

(***************************************************************************)
(* Bounded families of operands for the merge engine.                      *)
(***************************************************************************)
NumStrings == 3
StrPool == <<"X", "Y", "set", "Z", "W">>
Leaves == {Str("")} \cup {Str(StrPool[i]) : i \in 1..NumStrings}
NestedLeaves == {Str(""), Str("X"), Str("Y")}

\* Every IndexMap with keys among `keys` and values among `vals`.
FieldMaps(keys, vals) == UNION {[ks -> vals] : ks \in SUBSET keys}
\* Every IndexMap with exactly the keys `keys`.
FullMaps(keys, vals) == [keys -> vals]

\* The identity of a keyed container: what merge compares before recursing.
Ident(kind, name, vi, variant) == [kind |-> kind, name |-> name, vi |-> vi, variant |-> variant]
Container(id, f) == Mk(id.kind, id.name, id.vi, id.variant, "", NoItems, f)
Idents ==
    {Ident("Map", "", 0, ""), Ident("Struct", "S", 0, ""), Ident("Struct", "T", 0, ""),
     Ident("StructVariant", "E", 0, "A"), Ident("StructVariant", "E", 1, "A"),
     Ident("StructVariant", "E", 0, "B"), Ident("StructVariant", "F", 0, "A")}

\* Two-key structs of one name over the leaves.
FlatValues == {Struct("S", f) : f \in FieldMaps({"a", "b"}, Leaves)}
FlatInputs == FlatValues \X FlatValues \X FlatValues

\* Any shape against any shape: a few scalars and one-key containers of every identity.
ShapeValues ==
    {Str(""), Str("X"), I64("1"), Unit, F64("NaN")}
    \cup {Container(id, f) : id \in Idents,
                             f \in FieldMaps({"a"}, {Str(""), Str("X"), Unit, F64("NaN")})}
ShapeInputs == ShapeValues \X ShapeValues \X ShapeValues

\* A struct whose field "n" holds an inner container (or a leaf).
InnerIdents == {Ident("StructVariant", "E", 0, "A"), Ident("StructVariant", "E", 1, "A")}
InnerDefaults ==
    {Struct("I", f) : f \in FullMaps({"x", "y"}, NestedLeaves)}
    \cup {Container(id, f) : id \in InnerIdents, f \in FullMaps({"x"}, NestedLeaves)}
InnerValues ==
    NestedLeaves
    \cup {Struct(n, f) : n \in {"I", "J"}, f \in FieldMaps({"x", "y"}, NestedLeaves)}
    \cup {Container(id, f) : id \in InnerIdents, f \in FieldMaps({"x"}, NestedLeaves)}
Outer(v) == Struct("S", [k \in {"n"} |-> v])
NestedInputs == {<<Outer(d), Outer(l), Outer(r)>> : d \in InnerDefaults, l \in InnerValues, r \in InnerValues}

\* Values of every variant, for the scalar cases.
WideValues ==
    {Bool(TRUE), Bool(FALSE), I64("0"), I64("1"), U64("0"), U64("2"), F64("0"), F64("3.4"), F64("NaN"),
     Char("NUL"), Char("c"), Str(""), Str("X"), Bytes(""), Bytes("b"), None, Unit,
     Some(Str("")), Some(Str("X")), Some(None), UnitStruct("U"), UnitVariant("E", 0, "A"),
     NewtypeStruct("N", I64("0")), NewtypeStruct("N", I64("1")),
     NewtypeVariant("E", 0, "A", Str("")), NewtypeVariant("E", 0, "A", Str("X")),
     Seq_(<<>>), Seq_(<<Str("")>>), Tuple(<<>>), Tuple(<<I64("0")>>),
     TupleStruct("P", <<>>), TupleStruct("P", <<Bool(FALSE)>>),
     TupleVariant("E", 0, "A", <<>>), TupleVariant("E", 0, "A", <<Unit>>),
     Map(NoFields), Map([k \in {"a"} |-> Str("")]),
     Struct("S", NoFields), Struct("S", [k \in {"a"} |-> Str("")]),
     StructVariant("E", 0, "A", NoFields), StructVariant("E", 0, "A", [k \in {"a"} |-> I64("0")])}
WideInputs == {<<Unit, l, r>> : l \in WideValues, r \in WideValues}

MergeInputs == FlatInputs \cup ShapeInputs \cup NestedInputs \cup WideInputs

(***************************************************************************)
(* SpecMerge: the functions of src/value.rs applied to the operands.       *)
(***************************************************************************)
CollectIdle ==
    /\ c_kind = "idle" /\ c_src = <<>> /\ c_pos = 0 /\ c_open = FALSE /\ c_some = FALSE
    /\ c_calls = <<>>

BuilderIdle ==
    /\ pc = "idle" /\ collectors = <<>> /\ has_handler = FALSE /\ default_in = Unit
    /\ idx = 0 /\ default = Unit /\ value = Unit /\ result = <<>> /\ ret = <<>>
    /\ handled = <<>> /\ warned = 0

InitMerge ==
    /\ m_op = "input"
    /\ \E t \in MergeInputs : m_d = t[1] /\ m_l = t[2] /\ m_r = t[3]
    /\ m_out = Unit
    /\ BuilderIdle
    /\ CollectIdle

ApplyMerge ==
    /\ m_op = "input"
    /\ m_op' = "merge"
    /\ m_out' = merge(m_l, m_r)
    /\ UNCHANGED <<m_d, m_l, m_r>>
    /\ UNCHANGED <<bvars, cvars>>

ApplyMergeDefaultable ==
    /\ m_op = "input"
    /\ m_op' = "merge_defaultable"
    /\ m_out' = merge_defaultable(m_d, m_l, m_r)
    /\ UNCHANGED <<m_d, m_l, m_r>>
    /\ UNCHANGED <<bvars, cvars>>

ApplyIsDefault ==
    /\ m_op = "input"
    /\ m_op' = "is_default"
    /\ m_out' = Bool(is_default(m_r))
    /\ UNCHANGED <<m_d, m_l, m_r>>
    /\ UNCHANGED <<bvars, cvars>>

NextMerge == ApplyMerge \/ ApplyMergeDefaultable \/ ApplyIsDefault

SpecMerge == InitMerge /\ [][NextMerge]_vars

(***************************************************************************)
(* src/builder.rs: Builder::build_with.                                    *)
(*                                                                         *)
(* The target type V is a struct of string fields with #[serde(default)],  *)
(* as the TestConfig structs of the tests are.  A collector is modelled by *)
(* what its collect() returns: an error, or any Value (the Collector trait *)
(* is public, so a collector may return a Value of any shape).             *)
(***************************************************************************)
MaxSources == 3
TargetName == "TestConfig"
SchemaFields == {"test_a", "test_b"}
\* V::default(), which #[serde(default)] takes a missing field from.
TypeDefault == [f \in SchemaFields |-> Str("")]

Cfg(a, b) == Struct(TargetName, [f \in SchemaFields |-> IF f = "test_a" THEN a ELSE b])
CollectErr == [ok |-> FALSE, v |-> Unit]
CollectOk(v) == [ok |-> TRUE, v |-> v]

\* Values of type V, as into_value gives them.
TypedValues == {Cfg(Str(""), Str("")), Cfg(Str("X"), Str("")), Cfg(Str("Y"), Str("X")), Cfg(Str(""), Str("X"))}
\* What a collector outside this crate may return as well: a field of the
\* wrong type beside a field of the right one, a struct with a field V does
\* not know and without test_b, and a value that is no struct.
ForeignValues ==
    {Cfg(I64("1"), Str("X")),
     Struct(TargetName, [f \in {"test_a", "zz"} |-> IF f = "test_a" THEN Str("X") ELSE Str("Z")]),
     Str("X")}
CollectOutcomes == {CollectErr} \cup {CollectOk(v) : v \in TypedValues \cup ForeignValues}
Defaults == {Cfg(Str(""), Str("")), Cfg(Str("X"), Str("")), Cfg(Str(""), Str("X"))}

SeqsUpTo(S, n) == UNION {[1..k -> S] : k \in 0..n}

\* anyhow::Result<V> and Option<V>.
Ok(v) == [tag |-> "Ok", msg |-> "", v |-> v]
Err(msg) == [tag |-> "Err", msg |-> msg, v |-> Unit]
NoneV == <<>>
SomeV(v) == <<v>>

RECURSIVE merge_with_default(_, _)
RECURSIVE merge_map_with_default_loop(_, _, _)

\* crate::value::merge_with_default, imported by builder.rs and defined in no
\* source file at hand; after the design document, section 4.3: walk the
\* candidate's keys; where the default has the key, recurse; otherwise take
\* the candidate's value as it is.  Keys of the default alone are kept, so
\* that the result has the default's shape.
merge_map_with_default_loop(d, r, ks) ==
    IF ks = {} THEN d
    ELSE LET k == CHOOSE x \in ks : TRUE
             v == IF HasKey(d, k) THEN merge_with_default(d[k], r[k]) ELSE r[k]
         IN merge_map_with_default_loop(Insert(Remove(d, k), k, v), r, ks \ {k})

merge_with_default(d, r) ==
    CASE d.kind = "Map" /\ r.kind = "Map" ->
            Map(merge_map_with_default_loop(d.fields, r.fields, DOMAIN r.fields))
      [] d.kind = "Struct" /\ r.kind = "Struct" /\ d.name = r.name ->
            Struct(d.name, merge_map_with_default_loop(d.fields, r.fields, DOMAIN r.fields))
      [] d.kind = "StructVariant" /\ r.kind = "StructVariant"
         /\ d.name = r.name /\ d.vi = r.vi /\ d.variant = r.variant ->
            StructVariant(d.name, d.vi, d.variant,
                          merge_map_with_default_loop(d.fields, r.fields, DOMAIN r.fields))
      [] OTHER -> r

\* deserialize_value: from_value into V.  It succeeds on a struct of V's name
\* whose known fields hold strings; a missing field is taken from
\* V::default(); a field V does not know is ignored, and is what the
\* unknown-field handler is called with when there is one.
deserialize_value(v, handler) ==
    LET shaped == v.kind = "Struct" /\ v.name = TargetName
        typed == shaped /\ \A f \in SchemaFields \cap DOMAIN v.fields : v.fields[f].kind = "Str"
    IN [ok |-> typed,
        v |-> IF typed
              THEN Struct(TargetName,
                          [f \in SchemaFields |->
                              IF HasKey(v.fields, f) THEN v.fields[f] ELSE TypeDefault[f]])
              ELSE Unit,
        unknown |-> IF shaped /\ handler THEN (DOMAIN v.fields) \ SchemaFields ELSE {}]

RECURSIVE SeqOfSet(_)
SeqOfSet(S) == IF S = {} THEN <<>> ELSE LET x == CHOOSE y \in S : TRUE IN <<x>> \o SeqOfSet(S \ {x})

\* Mutants of NextValue.
\* (1) the two-way merge of the accumulated and the collected value, the default unused.
NextValue_two_way(d, val, collected) == merge(val, merge_with_default(d, collected))
\* (2) the accumulated and the collected value in each other's place.
NextValue_swapped(d, val, collected) == merge_defaultable(d, merge_with_default(d, collected), val)

\* Lines 136-140: the accumulated value after one more collected value.
\* The three-argument merge the builder calls is value.rs's merge_defaultable.
NextValue(d, val, collected) == merge_defaultable(d, val, merge_with_default(d, collected))

\* Mutant of NextResult: a failed deserialization forgets the remembered result.
NextResult_forgets(res, de) == IF de.ok THEN SomeV(de.v) ELSE NoneV

\* Lines 144-150: `result = match deserialize_value(..) { Ok(v) => Some(v), Err(e) => continue }`.
NextResult(res, de) == IF de.ok THEN SomeV(de.v) ELSE res

\* Line 153.
Returned(res) == IF res = NoneV THEN Err("no valid value to deserialize") ELSE Ok(res[1])

MergeIdle == m_op = "idle" /\ m_d = Unit /\ m_l = Unit /\ m_r = Unit /\ m_out = Unit

Init ==
    /\ MergeIdle
    /\ CollectIdle
    /\ pc = "start"
    /\ collectors \in SeqsUpTo(CollectOutcomes, MaxSources)
    /\ has_handler \in BOOLEAN
    /\ default_in \in Defaults
    /\ idx = 0
    /\ default = Unit
    /\ value = Unit
    /\ result = NoneV
    /\ ret = <<>>
    /\ handled = <<>>
    /\ warned = 0

\* Mutant of BuildStart: the default is deserialized before the loop.
BuildStart_deserializes_default ==
    /\ pc = "start"
    /\ pc' = "loop"
    /\ result' = NextResult(NoneV, deserialize_value(default_in, FALSE))
    /\ default' = default_in
    /\ value' = default_in
    /\ UNCHANGED <<collectors, has_handler, default_in, idx, ret, handled, warned>>
    /\ UNCHANGED <<mvars, cvars>>

\* Lines 130-132, into_value(default) succeeding.
BuildStart ==
    /\ pc = "start"
    /\ pc' = "loop"
    /\ result' = NoneV
    /\ default' = default_in
    /\ value' = default_in
    /\ UNCHANGED <<collectors, has_handler, default_in, idx, ret, handled, warned>>
    /\ UNCHANGED <<mvars, cvars>>

\* Line 131, into_value(default)? returning the serializer's error.
BuildStartErr ==
    /\ pc = "start"
    /\ pc' = "done"
    /\ ret' = <<Err("into_value")>>
    /\ UNCHANGED <<collectors, has_handler, default_in, idx, default, value, result, handled, warned>>
    /\ UNCHANGED <<mvars, cvars>>

\* Line 136, c.collect()? returning the collector's error from build_with.
StepCollectErr ==
    /\ pc = "loop" /\ idx < Len(collectors)
    /\ ~collectors[idx + 1].ok
    /\ pc' = "done"
    /\ ret' = <<Err("collect")>>
    /\ UNCHANGED <<collectors, has_handler, default_in, idx, default, value, result, handled, warned>>
    /\ UNCHANGED <<mvars, cvars>>

\* Lines 133-150, an iteration whose deserialization succeeds.
StepDeserOk ==
    /\ pc = "loop" /\ idx < Len(collectors)
    /\ collectors[idx + 1].ok
    /\ LET v == NextValue(default, value, collectors[idx + 1].v)
           de == deserialize_value(v, has_handler)
       IN /\ de.ok
          /\ value' = v
          /\ result' = NextResult(result, de)
          /\ handled' = handled \o SeqOfSet(de.unknown)
    /\ idx' = idx + 1
    /\ UNCHANGED <<pc, collectors, has_handler, default_in, default, ret, warned>>
    /\ UNCHANGED <<mvars, cvars>>

\* Mutant of StepDeserErr: the merge of an iteration whose deserialization
\* fails is dropped.
StepDeserErr_keeps_value ==
    /\ pc = "loop" /\ idx < Len(collectors)
    /\ collectors[idx + 1].ok
    /\ LET v == NextValue(default, value, collectors[idx + 1].v)
           de == deserialize_value(v, has_handler)
       IN /\ ~de.ok
          /\ result' = NextResult(result, de)
          /\ \E visited \in SUBSET de.unknown : handled' = handled \o SeqOfSet(visited)
    /\ warned' = warned + 1
    /\ idx' = idx + 1
    /\ UNCHANGED <<pc, collectors, has_handler, default_in, default, ret, value>>
    /\ UNCHANGED <<mvars, cvars>>

\* Lines 133-150, an iteration whose deserialization fails: warn! and continue.
\* The handler has been called with the unknown fields visited before the failure.
StepDeserErr ==
    /\ pc = "loop" /\ idx < Len(collectors)
    /\ collectors[idx + 1].ok
    /\ LET v == NextValue(default, value, collectors[idx + 1].v)
           de == deserialize_value(v, has_handler)
       IN /\ ~de.ok
          /\ value' = v
          /\ result' = NextResult(result, de)
          /\ \E visited \in SUBSET de.unknown : handled' = handled \o SeqOfSet(visited)
    /\ warned' = warned + 1
    /\ idx' = idx + 1
    /\ UNCHANGED <<pc, collectors, has_handler, default_in, default, ret>>
    /\ UNCHANGED <<mvars, cvars>>

\* Line 153, after the last collector.
Finish ==
    /\ pc = "loop" /\ idx = Len(collectors)
    /\ pc' = "done"
    /\ ret' = <<Returned(result)>>
    /\ UNCHANGED <<collectors, has_handler, default_in, idx, default, value, result, handled, warned>>
    /\ UNCHANGED <<mvars, cvars>>

Next == BuildStart \/ BuildStartErr \/ StepCollectErr \/ StepDeserOk \/ StepDeserErr \/ Finish

Spec == Init /\ [][Next]_vars

\* build_with as a function of its inputs (into_value(default) succeeding):
\* the loop of lines 133-151 from collector i on, then line 153.
RECURSIVE build_loop(_, _, _, _, _)
build_loop(d, val, res, cs, i) ==
    IF i > Len(cs) THEN Returned(res)
    ELSE IF ~cs[i].ok THEN Err("collect")
    ELSE LET v == NextValue(d, val, cs[i].v)
         IN build_loop(d, v, NextResult(res, deserialize_value(v, FALSE)), cs, i + 1)
build_with(d, cs) == build_loop(d, d, NoneV, cs, 1)

\* The accumulated value after the first n collectors, all of them collected.
RECURSIVE ValueAfter(_, _, _)
ValueAfter(d, cs, n) == IF n = 0 THEN d ELSE NextValue(d, ValueAfter(d, cs, n - 1), cs[n].v)

(***************************************************************************)
(* src/collectors: the source adapters.  V is the same struct of string    *)
(* fields.  An input is a sequence of lines `key = "val"`; a line without  *)
(* a key is not TOML.  The environment holds a variable per field at most. *)
(***************************************************************************)
MaxCollects == 2
MaxLines == 2
Panic(msg) == [tag |-> "Panic", msg |-> msg, v |-> Unit]
TomlLine(k, v) == [k |-> k, v |-> v]
Junk == TomlLine("", "=")
Lines == {TomlLine("test_a", "X"), TomlLine("test_a", "Y"), TomlLine("test_b", "X"), Junk}
Inputs == SeqsUpTo(Lines, MaxLines)
Environments == FieldMaps(SchemaFields, {"X", "Y"})
NoFile == [exists |-> FALSE, bytes |-> <<>>]
FileOf(bs) == [exists |-> TRUE, bytes |-> bs]

\* Toml::parse into V, then V::into_value: a line that is no `key = value`
\* and a key given twice are errors, a field without a line has V's default.
Toml_parse(bs) ==
    IF \E i \in DOMAIN bs : bs[i].k = "" THEN Err("parse")
    ELSE IF \E i, j \in DOMAIN bs : i # j /\ bs[i].k = bs[j].k THEN Err("parse")
    ELSE Ok(Struct(TargetName,
                   [f \in SchemaFields |->
                      IF \E i \in DOMAIN bs : bs[i].k = f
                      THEN Str(bs[CHOOSE i \in DOMAIN bs : bs[i].k = f].v)
                      ELSE TypeDefault[f]]))

\* serde_env::from_env into V, then V::into_value.
from_env(env) ==
    Ok(Struct(TargetName,
              [f \in SchemaFields |-> IF HasKey(env, f) THEN Str(env[f]) ELSE TypeDefault[f]]))

\* Mutant of read_to_end: the reader is rewound before it is read.
read_to_end_rewound(bytes, pos) == bytes
\* Read::read_to_end of a reader that has consumed `pos` lines of `bytes`.
read_to_end(bytes, pos) == SubSeq(bytes, pos + 1, Len(bytes))

InitCollect ==
    /\ \/ c_kind = "env" /\ c_src \in Environments
       \/ c_kind \in {"str", "reader"} /\ c_src \in Inputs
       \/ c_kind = "file" /\ c_src \in {NoFile} \cup {FileOf(bs) : bs \in Inputs}
       \/ c_kind = "self" /\ c_src \in TypedValues
    /\ c_pos = 0
    /\ c_open = FALSE
    /\ c_some = (c_kind = "self")
    /\ c_calls = <<>>
    /\ MergeIdle
    /\ BuilderIdle

CanCollect ==
    /\ Len(c_calls) < MaxCollects
    /\ \A i \in DOMAIN c_calls : c_calls[i].tag # "Panic"

\* Environment::collect
CollectEnvironment ==
    /\ c_kind = "env"
    /\ CanCollect
    /\ c_calls' = Append(c_calls, from_env(c_src))
    /\ UNCHANGED <<c_kind, c_src, c_pos, c_open, c_some>>
    /\ UNCHANGED <<mvars, bvars>>

\* Structural::collect over a byte slice (from_str) or another reader.
CollectStructural ==
    /\ c_kind \in {"str", "reader"}
    /\ CanCollect
    /\ c_calls' = Append(c_calls, Toml_parse(read_to_end(c_src, c_pos)))
    /\ c_pos' = Len(c_src)
    /\ UNCHANGED <<c_kind, c_src, c_open, c_some>>
    /\ UNCHANGED <<mvars, bvars>>

\* Structural::collect over a LazyFileReader: the file is opened by the
\* first read and the handle is kept.
CollectFile ==
    /\ c_kind = "file"
    /\ CanCollect
    /\ IF ~c_open /\ ~c_src.exists
       THEN /\ c_calls' = Append(c_calls, Err("io"))
            /\ UNCHANGED <<c_pos, c_open>>
       ELSE /\ c_open' = TRUE
            /\ c_calls' = Append(c_calls, Toml_parse(read_to_end(c_src.bytes, c_pos)))
            /\ c_pos' = Len(c_src.bytes)
    /\ UNCHANGED <<c_kind, c_src, c_some>>
    /\ UNCHANGED <<mvars, bvars>>

\* FromSelf::collect: self.0.take().expect("contains valid value")
CollectFromSelf ==
    /\ c_kind = "self"
    /\ CanCollect
    /\ IF c_some
       THEN c_calls' = Append(c_calls, Ok(c_src))
       ELSE c_calls' = Append(c_calls, Panic("contains valid value"))
    /\ c_some' = FALSE
    /\ UNCHANGED <<c_kind, c_src, c_pos, c_open>>
    /\ UNCHANGED <<mvars, bvars>>

NextCollect == CollectEnvironment \/ CollectStructural \/ CollectFile \/ CollectFromSelf

SpecCollect == InitCollect /\ [][NextCollect]_vars

(***************************************************************************)
(* Vocabulary of the properties of the merge engine.                       *)
(***************************************************************************)
\* l and r are both maps, both structs of one name, or both struct-variants
\* of one enum name, variant index and variant name.
Compatible(l, r) ==
    \/ l.kind = "Map" /\ r.kind = "Map"
    \/ l.kind = "Struct" /\ r.kind = "Struct" /\ l.name = r.name
    \/ /\ l.kind = "StructVariant" /\ r.kind = "StructVariant"
       /\ l.name = r.name /\ l.vi = r.vi /\ l.variant = r.variant
Compatible3(d, l, r) == Compatible(d, l) /\ Compatible(l, r)
Keys(v) == DOMAIN v.fields
Merged3 == m_op = "merge_defaultable" /\ Compatible3(m_d, m_l, m_r)

\* C6: in the three-way merge of compatible maps/structs, for every key k of
\* default d, accumulated a and candidate c: a[k] = d[k] and c[k] = d[k] gives
\* d[k]; a[k] = d[k] and c[k] # d[k] gives c[k]; a[k] # d[k] and c[k] = d[k]
\* gives a[k].  Hence merge3({a:"", b:"X"}, {a:"set", b:"X"}, {a:"", b:"Y"})
\* = {a:"set", b:"Y"}.
C6_d == Struct("S", [k \in {"a", "b"} |-> IF k = "a" THEN Str("") ELSE Str("X")])
C6_a == Struct("S", [k \in {"a", "b"} |-> IF k = "a" THEN Str("set") ELSE Str("X")])
C6_c == Struct("S", [k \in {"a", "b"} |-> IF k = "a" THEN Str("") ELSE Str("Y")])
C6_expect == Struct("S", [k \in {"a", "b"} |-> IF k = "a" THEN Str("set") ELSE Str("Y")])
C6_ThreeWayPrecedence ==
    /\ Merged3 =>
         \A k \in Keys(m_d) \cap Keys(m_l) \cap Keys(m_r) :
            LET dv == m_d.fields[k]
                av == m_l.fields[k]
                cv == m_r.fields[k]
            IN /\ HasKey(m_out.fields, k)
               /\ (ValueEq(av, dv) /\ ValueEq(cv, dv)) => m_out.fields[k] = dv
               /\ (ValueEq(av, dv) /\ ~ValueEq(cv, dv)) => m_out.fields[k] = cv
               /\ (~ValueEq(av, dv) /\ ValueEq(cv, dv)) => m_out.fields[k] = av
    /\ (m_op = "merge_defaultable" /\ m_d = C6_d /\ m_l = C6_a /\ m_r = C6_c)
         => m_out = C6_expect
C6_Witness ==
    /\ m_op = "merge_defaultable" /\ m_d = C6_d /\ m_l = C6_a /\ m_r = C6_c
    /\ m_out = C6_expect

\* C7: when for a key both the accumulated and the candidate value differ from
\* the default value and all three are compatible containers, the three-way
\* merge recurses with the three-way merge on that key, so that a nested
\* candidate field equal to its nested default never overwrites a nested
\* accumulated field that differs from that default.
C7_NestedThreeWay ==
    Merged3 =>
      \A k \in Keys(m_d) \cap Keys(m_l) \cap Keys(m_r) :
         LET dv == m_d.fields[k]
             av == m_l.fields[k]
             cv == m_r.fields[k]
         IN (~ValueEq(av, dv) /\ ~ValueEq(cv, dv) /\ Compatible3(dv, av, cv)) =>
              /\ m_out.fields[k] = merge_defaultable(dv, av, cv)
              /\ \A j \in Keys(dv) \cap Keys(av) \cap Keys(cv) :
                    (ValueEq(cv.fields[j], dv.fields[j]) /\ ~ValueEq(av.fields[j], dv.fields[j]))
                       => m_out.fields[k].fields[j] = av.fields[j]

\* C8 as stated: a candidate key that has no entry in the default layer is a
\* hard failure, and no merged value containing that key is produced.
C8_UnknownKeyIsFailure ==
    Merged3 => \A k \in Keys(m_r) \ Keys(m_d) : ~HasKey(m_out.fields, k)
\* C8 as amended: a candidate key that has no entry in the default layer is
\* no failure; unit is taken as its default and the merged value contains the
\* key: with the candidate's value when the accumulated value lacks the key or
\* holds unit there, with the accumulated value when the candidate holds unit
\* and the accumulated value does not, with merge(accumulated, candidate)
\* otherwise.
C8_UnknownKeyTakesUnit ==
    Merged3 =>
      \A k \in Keys(m_r) \ Keys(m_d) :
         /\ HasKey(m_out.fields, k)
         /\ m_out.fields[k] =
              IF ~HasKey(m_l.fields, k) THEN m_r.fields[k]
              ELSE IF ValueEq(m_l.fields[k], Unit) THEN m_r.fields[k]
              ELSE IF ValueEq(m_r.fields[k], Unit) THEN m_l.fields[k]
              ELSE merge(m_l.fields[k], m_r.fields[k])
C8_Witness ==
    /\ Merged3
    /\ \E k \in Keys(m_r) \ Keys(m_d) :
          /\ HasKey(m_l.fields, k) /\ m_l.fields[k] # Unit /\ m_r.fields[k] # Unit
          /\ m_out.fields[k] = m_r.fields[k]
          /\ m_out.fields[k] # m_l.fields[k]

\* C9 as stated: for every default d and every accumulated value a whose keys
\* are a subset of d's, merge3(d, a, d) = a (taken here for the defaults that
\* hold no NaN float only, every value of which is equal to itself).
C9_DefaultCandidateNoOp ==
    (m_op = "merge_defaultable" /\ m_r = m_d /\ Compatible(m_d, m_l)
        /\ Keys(m_l) \subseteq Keys(m_d) /\ ~HasNaN(m_d))
      => m_out = m_l
\* C9 as amended: for compatible containers d and a, d holding no NaN float
\* (a value unequal to itself), merge3(d, a, d) keeps every entry of a and
\* adds each key of d that a lacks with d's value; it is a when a has every
\* key of d.
C9_DefaultCandidateKeepsAccumulated ==
    (m_op = "merge_defaultable" /\ m_r = m_d /\ Compatible(m_d, m_l) /\ ~HasNaN(m_d)) =>
      /\ Keys(m_out) = Keys(m_l) \cup Keys(m_d)
      /\ m_out.kind = m_l.kind /\ m_out.name = m_l.name
      /\ m_out.vi = m_l.vi /\ m_out.variant = m_l.variant
      /\ \A k \in Keys(m_l) : m_out.fields[k] = m_l.fields[k]
      /\ \A k \in Keys(m_d) \ Keys(m_l) : m_out.fields[k] = m_d.fields[k]
      /\ (Keys(m_d) \subseteq Keys(m_l)) => m_out = m_l
C9_Witness ==
    /\ m_op = "merge_defaultable" /\ m_r = m_d /\ Compatible(m_d, m_l)
    /\ Keys(m_d) = Keys(m_l) /\ m_l # m_d
    /\ \E k \in Keys(m_l) : Keys(m_l.fields[k]) # {} /\ m_l.fields[k] # m_d.fields[k]
    /\ m_out = m_l

\* C10: for any two values l and r that are not both maps, not both structs
\* of the same name and not both struct-variants of the same enum name,
\* variant index and variant name, merge(l, r) = r.
C10_RightBias ==
    (m_op = "merge" /\ ~Compatible(m_l, m_r)) => m_out = m_r
C10_Witness ==
    /\ m_op = "merge" /\ m_l.kind = "Struct" /\ m_r.kind = "Struct"
    /\ m_l.name # m_r.name /\ Keys(m_l) # {} /\ Keys(m_r) # {}
    /\ m_l.fields # m_r.fields
    /\ m_out = m_r

\* l and r are two structs of different names, or two struct-variants that
\* differ in enum name, variant index or variant name.
Mismatched(l, r) ==
    \/ l.kind = "Struct" /\ r.kind = "Struct" /\ l.name # r.name
    \/ /\ l.kind = "StructVariant" /\ r.kind = "StructVariant"
       /\ (l.name # r.name \/ l.vi # r.vi \/ l.variant # r.variant)
SharedKeys(l, r) == Keys(l) \cap Keys(r)
Merged2 == m_op = "merge" /\ Compatible(m_l, m_r)
\* default.get(&k).unwrap_or(&Value::Unit)
DefaultAt(d, k) == IF HasKey(d.fields, k) THEN d.fields[k] ELSE Unit

\* C11 as stated: when the two-way or the three-way merge meets two structs
\* of different names, or two struct-variants of different identity, at the
\* top level or under one key of the containers it merges, the result for
\* that slot is exactly the right value.
C11_MismatchTakesRight ==
    /\ m_op \in {"merge", "merge_defaultable"} /\ Mismatched(m_l, m_r) => m_out = m_r
    /\ Merged2 \/ Merged3 =>
         \A k \in SharedKeys(m_l, m_r) :
            Mismatched(m_l.fields[k], m_r.fields[k]) => m_out.fields[k] = m_r.fields[k]

\* C11 as amended: two structs of different names, or two struct-variants of
\* different identity, are never merged field by field. At the top level the
\* result is exactly the right value. Under one key of the containers being
\* merged the result for that key is the right value, except that the left
\* value is kept whole when the merge's precedence test keeps the left: in
\* the two-way merge when the left value is not is_default and the right one
\* is, in the three-way merge when the left value differs from the default's
\* value for the key and the right value equals it.
C11_MismatchNeverMergedFieldwise ==
    /\ m_op \in {"merge", "merge_defaultable"} /\ Mismatched(m_l, m_r) => m_out = m_r
    /\ Merged2 =>
         \A k \in SharedKeys(m_l, m_r) :
            LET lv == m_l.fields[k]
                rv == m_r.fields[k]
            IN Mismatched(lv, rv) =>
                 m_out.fields[k] = IF ~is_default(lv) /\ is_default(rv) THEN lv ELSE rv
    /\ Merged3 =>
         \A k \in SharedKeys(m_l, m_r) :
            LET lv == m_l.fields[k]
                rv == m_r.fields[k]
                dv == DefaultAt(m_d, k)
            IN Mismatched(lv, rv) =>
                 m_out.fields[k] = IF ~ValueEq(lv, dv) /\ ValueEq(rv, dv) THEN lv ELSE rv
C11_Witness ==
    /\ Merged3
    /\ \E k \in SharedKeys(m_l, m_r) :
          /\ Mismatched(m_l.fields[k], m_r.fields[k])
          /\ m_l.fields[k].kind = "StructVariant"
          /\ m_out.fields[k] = m_l.fields[k]
          /\ m_out.fields[k] # m_r.fields[k]

\* C12 as stated: in the two-way merge of compatible maps, structs or
\* struct-variants, for every key of both sides the result's value is
\* merge(left value, right value), and the right value when both are scalars.
ContainerKinds == {"Map", "Struct", "StructVariant"}
C12_SharedKeyIsMerged ==
    Merged2 =>
      \A k \in SharedKeys(m_l, m_r) :
         LET lv == m_l.fields[k]
             rv == m_r.fields[k]
         IN /\ m_out.fields[k] = merge(lv, rv)
            /\ lv.kind \notin ContainerKinds /\ rv.kind \notin ContainerKinds
                 => m_out.fields[k] = rv

\* C12 as amended: in the two-way merge of compatible maps, structs or
\* struct-variants, for every key of both sides the result's value is the
\* right value when the left value is is_default, the left value when the
\* left value is not is_default and the right one is, and merge(left value,
\* right value) when neither is; two scalars neither of which is is_default
\* give the right value.
C12_SharedKeyByIsDefault ==
    Merged2 =>
      \A k \in SharedKeys(m_l, m_r) :
         LET lv == m_l.fields[k]
             rv == m_r.fields[k]
         IN /\ is_default(lv) => m_out.fields[k] = rv
            /\ ~is_default(lv) /\ is_default(rv) => m_out.fields[k] = lv
            /\ ~is_default(lv) /\ ~is_default(rv) => m_out.fields[k] = merge(lv, rv)
            /\ (/\ ~is_default(lv) /\ ~is_default(rv)
                /\ lv.kind \notin ContainerKinds /\ rv.kind \notin ContainerKinds)
                 => m_out.fields[k] = rv
C12_Witness ==
    /\ Merged2
    /\ \E k \in SharedKeys(m_l, m_r) :
          /\ m_l.fields[k] = Str("X") /\ m_r.fields[k] = Str("")
          /\ m_out.fields[k] = Str("X")
    /\ \E k \in SharedKeys(m_l, m_r) :
          /\ m_l.fields[k] = Str("X") /\ m_r.fields[k] = Str("Y")
          /\ m_out.fields[k] = Str("Y")

\* C13: for compatible containers (in the three-way merge the default is
\* compatible as well) the result is a container of the same identity whose
\* key set is the union of the left/accumulated keys and the right/candidate
\* keys; a key of the left operand alone keeps the left value, a key of the
\* right operand alone gets the right value.
C13_KeysAreUnion ==
    Merged2 \/ Merged3 =>
      /\ Compatible(m_out, m_l)
      /\ Keys(m_out) = Keys(m_l) \cup Keys(m_r)
      /\ \A k \in Keys(m_l) \ Keys(m_r) : m_out.fields[k] = m_l.fields[k]
      /\ \A k \in Keys(m_r) \ Keys(m_l) : m_out.fields[k] = m_r.fields[k]
C13_Witness ==
    /\ Merged2
    /\ Keys(m_l) \ Keys(m_r) # {}
    /\ Keys(m_r) \ Keys(m_l) # {}
    /\ Keys(m_out) = Keys(m_l) \cup Keys(m_r)

\* The cases the statement of C14 lists.
C14_Listed(v) ==
    \/ v.kind = "Bool" /\ v.s = "false"
    \/ v.kind \in IntegerKinds /\ v.s = "0"
    \/ v.kind = "Char" /\ v.s = "NUL"
    \/ v.kind \in {"Str", "Bytes"} /\ v.s = ""
    \/ v.kind = "None"
    \/ v.kind = "Some" /\ is_default(v.items[1])
    \/ v.kind \in {"Unit", "UnitStruct"}
    \/ v.kind \in {"Seq", "Tuple", "TupleStruct", "TupleVariant"} /\ v.items = <<>>
    \/ v.kind \in ContainerKinds /\ DOMAIN v.fields = {}
\* The two cases it leaves out.
C14_Unlisted(v) ==
    \/ v.kind \in FloatKinds /\ v.s = "0"
    \/ v.kind \in {"NewtypeStruct", "NewtypeVariant"} /\ is_default(v.items[1])

\* C14 as stated: is_default(v) is true exactly when v is boolean false, an
\* integer zero, the null character, an empty string or byte string, none,
\* some(x) with is_default(x), unit or unit-struct, or a seq, tuple,
\* tuple-struct, tuple-variant, map, struct or struct-variant without
\* elements or fields.
C14_IsDefaultExactlyListed ==
    m_op = "is_default" => (m_out = Bool(TRUE) <=> C14_Listed(m_r))

\* C14 as amended: is_default(v) is true exactly in the listed cases and in
\* two more: v is a float equal to zero, or v is a newtype-struct or a
\* newtype-variant of an x with is_default(x). It is false for every
\* unit-variant and for every non-empty container.
C14_IsDefaultTable ==
    m_op = "is_default" =>
      /\ m_out \in {Bool(TRUE), Bool(FALSE)}
      /\ m_out = Bool(TRUE) <=> (C14_Listed(m_r) \/ C14_Unlisted(m_r))
      /\ m_r.kind = "UnitVariant" => m_out = Bool(FALSE)
      /\ m_r.items # <<>> /\ m_r.kind \in {"Seq", "Tuple", "TupleStruct", "TupleVariant"}
           => m_out = Bool(FALSE)
      /\ DOMAIN m_r.fields # {} => m_out = Bool(FALSE)
C14_Witness ==
    /\ m_op = "is_default"
    /\ m_r \in {F64("0"), NewtypeStruct("N", I64("0")), NewtypeVariant("E", 0, "A", Str(""))}
    /\ m_out = Bool(TRUE)

\* x2 stands to the default's and to the accumulated value for key j as x does.
SameRelations(x2, x, dk, lk, j) ==
    /\ ValueEq(x2, DefaultAt(dk, j)) <=> ValueEq(x, DefaultAt(dk, j))
    /\ HasKey(lk.fields, j) => (x2 = lk.fields[j] <=> x = lk.fields[j])
\* Which operand's value the merge gave: the left one, the right one.
Chosen(o, lv, rv) == <<o = lv, o = rv>>
ReplaceField(v, k, x) == Mk(v.kind, v.name, v.vi, v.variant, v.s, v.items, Insert(Remove(v.fields, k), k, x))

\* C17: the three-way merge decides on equality with the default alone, never
\* on is_default, at any nesting depth: in a container nested under a key of
\* the operands, replacing the candidate's values by values that stand in the
\* same equality relations to the default's and the accumulated values (and
\* differ in is_default) does not change which operand's value is chosen.
C17_OnlyEqualityDecides ==
    Merged3 =>
      \A k \in Keys(m_d) \cap SharedKeys(m_l, m_r) :
         LET dk == m_d.fields[k]
             lk == m_l.fields[k]
             rk == m_r.fields[k]
         IN Compatible3(dk, lk, rk) =>
              \A r2 \in InnerValues :
                 (/\ Compatible(rk, r2)
                  /\ Keys(r2) = Keys(rk)
                  /\ \A j \in Keys(rk) : SameRelations(r2.fields[j], rk.fields[j], dk, lk, j))
                 => LET out2 == merge_defaultable(m_d, m_l, ReplaceField(m_r, k, r2))
                    IN \A j \in SharedKeys(lk, rk) :
                          Chosen(out2.fields[k].fields[j], lk.fields[j], r2.fields[j])
                            = Chosen(m_out.fields[k].fields[j], lk.fields[j], rk.fields[j])

\* The variants of serde_bridge::Value.
ValueKinds ==
    {"Bool", "Char", "Str", "Bytes", "None", "Some", "Unit", "UnitStruct", "UnitVariant",
     "NewtypeStruct", "NewtypeVariant", "Seq", "Tuple", "TupleStruct", "TupleVariant",
     "Map", "Struct", "StructVariant"} \cup IntegerKinds \cup FloatKinds
RECURSIVE IsValue(_)
IsValue(v) ==
    /\ v.kind \in ValueKinds
    /\ \A i \in DOMAIN v.items : IsValue(v.items[i])
    /\ \A k \in DOMAIN v.fields : IsValue(v.fields[k])

\* C19: the merge cannot fail: for every default, accumulated and candidate
\* value, of any shapes and nesting, keys missing from the default included,
\* the two-way and the three-way merge return a Value, never an error or a
\* panic.
C19_MergeReturnsValue ==
    m_op \in {"merge", "merge_defaultable"} => IsValue(m_out)
C19_Witness ==
    /\ Merged3
    /\ Keys(m_d) = {}
    /\ \E k \in SharedKeys(m_l, m_r) : HasNaN(m_l.fields[k]) /\ m_r.fields[k] = Unit
    /\ IsValue(m_out)

\* The accumulated and the candidate value are compatible containers and the
\* default is not one of their kind and identity.
DefaultApart == m_op = "merge_defaultable" /\ Compatible(m_l, m_r) /\ ~Compatible(m_d, m_l)

\* C21: merge_defaultable(d, l, r) returns r unchanged whenever l and r are
\* compatible containers and d is not a container of their kind and identity
\* (no map beside two maps, a struct of another name, a struct-variant of
\* another identity, or no container at all); every key that only l holds is
\* absent from the result.
C21_ForeignDefaultTakesRight ==
    DefaultApart =>
      /\ m_out = m_r
      /\ \A k \in Keys(m_l) \ Keys(m_r) : ~HasKey(m_out.fields, k)
C21_Witness ==
    /\ DefaultApart
    /\ m_d.kind = m_l.kind /\ m_d.kind = "StructVariant"
    /\ Keys(m_l) \ Keys(m_r) # {}
    /\ m_out = m_r

(***************************************************************************)
(* Properties of the source adapters.                                      *)
(***************************************************************************)
CollectedTwice == c_kind # "idle" /\ Len(c_calls) >= 2

Max(S) == CHOOSE x \in S : \A y \in S : y <= x
Done == pc = "done" /\ ret # <<>>
\* build_with got past into_value(default).
Serialized == Done /\ ret[1].msg # "into_value"
Collected(cs) == SelectSeq(cs, LAMBDA c : c.ok)
AllCollected == \A i \in 1..Len(collectors) : collectors[i].ok
\* The iterations among the first n whose deserialization succeeded.
DeserializedSteps(n) ==
    {i \in 1..n : deserialize_value(ValueAfter(default_in, collectors, i), FALSE).ok}
DeserializedAt(i) == deserialize_value(ValueAfter(default_in, collectors, i), FALSE).v

\* The state machine and the function build_with agree.
BuildAgrees ==
    /\ pc = "loop" => value = ValueAfter(default_in, collectors, idx)
    /\ Serialized => ret[1] = build_with(default_in, collectors)

\* C1: when one source's collect() returns an error the build does not abort:
\* the remaining sources are still collected and merged, and the returned
\* value is the one the build returns with the failing sources removed from
\* the list (for three sources of which only the middle one fails, the build
\* succeeds).
C1_FailedCollectIsSkipped ==
    (Serialized /\ ~AllCollected) =>
        LET without == build_with(default_in, Collected(collectors))
        IN ret[1].tag = without.tag /\ ret[1].v = without.v

\* C2: when every source collects and every step deserializes, every
\* top-level field of the result that is no keyed container holds the value of
\* the last source whose value for the field differs from the default
\* snapshot (also when that value is the zero value), and the default's value
\* when no source's value differs from it.
LastTouched(f) ==
    LET touched == {i \in 1..Len(collectors) :
                        /\ HasKey(collectors[i].v.fields, f)
                        /\ collectors[i].v.fields[f] # default_in.fields[f]}
    IN IF touched = {} THEN default_in.fields[f]
       ELSE collectors[Max(touched)].v.fields[f]
C2_LastTouchedWins ==
    (Serialized /\ AllCollected /\ warned = 0 /\ Len(collectors) >= 1) =>
        /\ ret[1].tag = "Ok"
        /\ \A f \in SchemaFields : ret[1].v.fields[f] = LastTouched(f)
C2_Witness ==
    /\ Serialized /\ AllCollected /\ warned = 0 /\ Len(collectors) = 3
    /\ default_in.fields["test_a"] = Str("X")
    /\ collectors[1].v.fields["test_a"] = Str("Y")
    /\ collectors[2].v.fields["test_a"] = Str("")
    /\ collectors[3].v.fields["test_a"] = Str("X")
    /\ ret[1].tag = "Ok" /\ ret[1].v.fields["test_a"] = Str("")

\* C3: source order is the precedence: when two sources A and B set the same
\* field to different values that both differ from the default, building with
\* [A, B] yields B's value for the field and building with [B, A] yields A's,
\* so the two builds are not equal.
C3_OrderIsPrecedence ==
    (Serialized /\ Len(collectors) = 2 /\ AllCollected
        /\ collectors[1].v \in TypedValues /\ collectors[2].v \in TypedValues) =>
      LET A == collectors[1].v
          B == collectors[2].v
          swapped == build_with(default_in, <<collectors[2], collectors[1]>>)
      IN \A f \in SchemaFields :
            (A.fields[f] # B.fields[f] /\ A.fields[f] # default_in.fields[f]
                /\ B.fields[f] # default_in.fields[f]) =>
               /\ ret[1].tag = "Ok" /\ ret[1].v.fields[f] = B.fields[f]
               /\ swapped.tag = "Ok" /\ swapped.v.fields[f] = A.fields[f]
               /\ swapped # ret[1]
C3_Witness ==
    /\ Serialized /\ Len(collectors) = 2 /\ AllCollected
    /\ default_in.fields["test_a"] = Str("")
    /\ collectors[1].v = Cfg(Str("X"), Str(""))
    /\ collectors[2].v = Cfg(Str("Y"), Str("X"))
    /\ ret[1].tag = "Ok" /\ ret[1].v.fields["test_a"] = Str("Y")

\* C4: when deserializing the accumulated value fails at a step, the loop
\* goes on with the next source and the remembered result is kept; the value
\* finally returned is the deserialization of the accumulated value as it
\* stood after the last step whose deserialization succeeded.
C4_LastGoodResultKept ==
    /\ pc = "loop" =>
          result = IF DeserializedSteps(idx) = {} THEN NoneV
                   ELSE SomeV(DeserializedAt(Max(DeserializedSteps(idx))))
    /\ (Done /\ ret[1].msg \notin {"into_value", "collect"}) => idx = Len(collectors)
    /\ (Done /\ ret[1].tag = "Ok") =>
          /\ DeserializedSteps(idx) # {}
          /\ ret[1].v = DeserializedAt(Max(DeserializedSteps(idx)))
C4_Witness ==
    /\ Done /\ ret[1].tag = "Ok" /\ Len(collectors) = 3 /\ idx = 3
    /\ DeserializedSteps(3) = {1}
    /\ warned = 2
    /\ ret[1].v = DeserializedAt(1)
    /\ ret[1].v # default_in

\* C5: if every source fails collection or every accumulated value fails
\* deserialization, build_with returns exactly one error and no value; it
\* returns a value if and only if at least one step deserialized successfully.
C5_ValueIffSomeStepDeserialized ==
    Serialized =>
        /\ ret[1].tag = "Ok" <=> DeserializedSteps(idx) # {}
        /\ ret[1].tag = "Err" => ret[1].v = Unit

\* The unknown fields of a collected value: its keys outside V's schema.
UnknownFields(v) == IF v.kind = "Struct" THEN (DOMAIN v.fields) \ SchemaFields ELSE {}

\* C16: during one build the unknown-field handler is called at most once for
\* each field of the value that V's schema lacks, however many sources there
\* are; with a single source that carries one unknown field, the handler is
\* called exactly once, with that field's path.
C16_HandlerOncePerField ==
    /\ \A i, j \in DOMAIN handled : i # j => handled[i] # handled[j]
    /\ Done /\ has_handler /\ Len(collectors) = 1 /\ AllCollected /\ ret[1].tag = "Ok" =>
         \A f \in UnknownFields(collectors[1].v) :
            UnknownFields(collectors[1].v) = {f} => handled = <<f>>

\* Collector i returns a struct of V's name whose field f is a string other
\* than the default's.
Contributes(i, f) ==
    LET v == collectors[i].v
    IN /\ v.kind = "Struct" /\ v.name = TargetName
       /\ HasKey(v.fields, f) /\ v.fields[f].kind = "Str"
       /\ v.fields[f] # default_in.fields[f]
\* Collector j returns a struct of V's name that leaves field f as the default has it.
LeavesAlone(j, f) ==
    LET v == collectors[j].v
    IN /\ v.kind = "Struct" /\ v.name = TargetName
       /\ HasKey(v.fields, f) => v.fields[f] = default_in.fields[f]

\* C18: the accumulated value is the merge of every collected value so far,
\* those of the steps whose deserialization failed included; when a step
\* fails to deserialize and the last step deserializes, the build returns the
\* deserialized merge of all steps, in which a field the failed step set and
\* no later step set holds the failed step's value.
C18_FailedStepStillMerged ==
    /\ pc = "loop" => value = ValueAfter(default_in, collectors, idx)
    /\ LET n == Len(collectors)
       IN (Serialized /\ AllCollected /\ n >= 2 /\ n \in DeserializedSteps(n)) =>
            /\ ret[1] = Ok(DeserializedAt(n))
            /\ \A i \in (1..(n - 1)) \ DeserializedSteps(n) : \A f \in SchemaFields :
                  (Contributes(i, f) /\ \A j \in (i + 1)..n : LeavesAlone(j, f)) =>
                     ret[1].v.fields[f] = collectors[i].v.fields[f]
C18_Witness ==
    /\ Serialized /\ warned = 1
    /\ default_in = Cfg(Str(""), Str(""))
    /\ collectors = <<CollectOk(Cfg(I64("1"), Str("X"))), CollectOk(Cfg(Str("X"), Str("")))>>
    /\ ret[1] = Ok(Cfg(Str("X"), Str("X")))

\* C20: a Builder without sources never returns a value: build_with returns
\* the error "no valid value to deserialize", also when the default is a
\* valid configuration, because the default is deserialized inside the loop
\* over the sources only.
C20_NoSourcesNoValue ==
    Done /\ Len(collectors) = 0 =>
       /\ ret[1].tag = "Err"
       /\ Serialized => ret[1] = Err("no valid value to deserialize")
C20_Witness ==
    /\ Serialized /\ Len(collectors) = 0
    /\ deserialize_value(default_in, has_handler).ok
    /\ ret[1] = Err("no valid value to deserialize")
====
